---- MODULE Spec2Model ----
(***************************************************************************)
(* Model of guipysofi: the DataManager (core/data_manager.py) with its     *)
(* analysis pipeline run_sofi, the file load flow of the GUI (ui/gui.py)   *)
(* and the part of the stack visualizer (ui/visualizer.py) that the load   *)
(* flow drives.                                                            *)
(*                                                                         *)
(* Arrays are modelled by their shape (a sequence of dimension sizes) and  *)
(* their item size; messages by the sequence of their literal parts. The   *)
(* calls into the PySOFI library are steps whose outcome (return, raise,   *)
(* the keys left in cumulants_set) is chosen nondeterministically.         *)
(***************************************************************************)
EXTENDS Integers, Sequences, FiniteSets, TLC

(***************************************************************************)
(* Bounds of the model                                                     *)
(***************************************************************************)
MaxFrames == 2          \* small leading dimensions are 1..MaxFrames
MaxNdim == 3            \* decoded arrays have 1..MaxNdim dimensions
BigDim == 1024          \* a large dimension (frame side, or a long stack)
MaxTemp == 2            \* longest temp_files list
MaxOrder == 3           \* orders are 2..MaxOrder, cumulant keys 1..MaxOrder

(***************************************************************************)
(* Program constants                                                       *)
(***************************************************************************)
DiskCapMB == 500        \* load_file: "if file_size_mb > 500"
MemCapMB == 1000        \* load_file: "if mem_size_mb > 1000"
GuiMaxFrames == 200     \* gui: frames_var.set(min(200, total_frames))
BytesPerMB == 1024 * 1024

DiskCapBytes == DiskCapMB * BytesPerMB
MemCapBytes == MemCapMB * BytesPerMB

(***************************************************************************)
(* Message parts (the literal text of the f-strings in the source)         *)
(***************************************************************************)

Contains(msg, part) == \E i \in 1..Len(msg) : msg[i] = part

(***************************************************************************)
(* Inputs: files on disk as load_file sees them                            *)
(***************************************************************************)
Dims == (1..MaxFrames) \cup {BigDim}
ItemSizes == {4}
\* shapes: a leading dimension followed by frame sides of BigDim
Shapes == { [i \in 1..n |-> IF i = 1 THEN d ELSE BigDim] : n \in 1..MaxNdim, d \in Dims }
FileSizes == {1, DiskCapBytes, DiskCapBytes + 1}
Paths == {"a.tif"}

MissingFile == [exists |-> FALSE, size |-> 0, decodes |-> FALSE, shape |-> <<>>, itemsize |-> 1]
Files ==
    {MissingFile} \cup
    [exists : {TRUE}, size : FileSizes, decodes : {FALSE}, shape : {<<>>}, itemsize : {1}] \cup
    [exists : {TRUE}, size : FileSizes, decodes : {TRUE}, shape : Shapes, itemsize : ItemSizes]

TempPaths == {"t1", "t2", "t3"}

(***************************************************************************)
(* State                                                                   *)
(***************************************************************************)
VARIABLES
    data,           \* DataManager.data: [st: "absent"|"none"|"set", shape]
    total_frames,   \* DataManager.total_frames
    temp_files,     \* DataManager.temp_files
    disk,           \* temporary paths that exist on disk
    last,           \* the last DataManager call and what it returned
    file_path_var,  \* SOFIGUI.file_path_var
    frames_var,     \* SOFIGUI.frames_var
    vis,            \* orig_visualizer: [data, total_frames, current_frame]
    gui,            \* the last GUI load handler and what it did
    file_path,      \* DataManager.file_path: "absent", "none" or a path
    sofi_result,    \* DataManager.sofi_result: [kind, order]
    pysofi,         \* whether "import pysofi" succeeds
    pc,             \* where the run_sofi call in progress stands
    params,         \* run_sofi: the parameters read from the dictionary
    calls,          \* run_sofi: the external steps invoked so far, in order
    sofi,           \* run_sofi: the PysofiData object of the run
    ret,            \* what the last run_sofi call returned
    run_button,     \* SOFIGUI.run_button: "normal" or "disabled"
    workers,        \* the analysis threads the GUI has started, and where each stands
    sofi_vis,       \* sofi_visualizer: the result image it shows
    ui_writes,      \* which thread has changed which part of the presentation state
    gui_run,        \* what the last click on the run control led to
    notebook,       \* the selected tab of SOFIGUI.notebook: "orig" or "sofi"
    save_button,    \* SOFIGUI.save_button: "normal" or "disabled"
    is_playing,     \* orig_visualizer.is_playing
    play_button,    \* the symbol on the play button: "play" or "pause"
    play_thread_id, \* orig_visualizer.play_thread_id (0: None)
    players,        \* the play_animation threads, and where each stands
    events,         \* callbacks scheduled with after(0, ...) for the UI thread
    slider_update_id, \* orig_visualizer.slider_update_id: a slider update is pending
    closed,         \* the window has been destroyed
    PysofiData,     \* the class pysofi.pysofi.PysofiData: [loaded, methods, native]
    dm_imported,    \* the import of core.data_manager: "no", "yes" or "failed"
    probe,          \* what check_pysofi_compatibility reported last
    status_callback,    \* DataManager.status_callback: TRUE when one was supplied
    progress_callback,  \* DataManager.progress_callback: TRUE when one was supplied
    status_seen,    \* what the status callback received during the last DataManager call
    progress_seen   \* what the progress callback received during the last DataManager call

cbVars == <<status_callback, progress_callback, status_seen, progress_seen>>
dataVars == <<data, total_frames, temp_files, disk, last>>
dmVars == <<dataVars, cbVars>>
ctlVars == <<run_button, workers, sofi_vis, ui_writes, gui_run, notebook, save_button>>
playVars == <<is_playing, play_button, play_thread_id, players, events,
              slider_update_id, closed>>
guiVars == <<file_path_var, frames_var, vis, gui, ctlVars, playVars>>
pyVars == <<pysofi, PysofiData, dm_imported, probe>>
runVars == <<file_path, sofi_result, pyVars, pc, params, calls, sofi, ret>>
vars == <<dmVars, guiVars, runVars>>

NoData == [st |-> "none", shape |-> <<>>]
AbsentData == [st |-> "absent", shape |-> <<>>]
SetData(shape) == [st |-> "set", shape |-> shape]

\* what the history variables keep of the file a call was given
FileInfo(f) == [exists |-> f.exists, overcap |-> f.exists /\ f.size > DiskCapBytes,
                ndim |-> Len(f.shape)]

NoCall == [op |-> "none", success |-> FALSE, raised |-> FALSE, msg |-> <<>>,
           decodes |-> 0, file |-> FileInfo(MissingFile), tracked |-> {}, failed |-> {}]

(***************************************************************************)
(* numpy helpers                                                           *)
(***************************************************************************)
\* a * b, saturating just above the memory cap (keeps the arithmetic small)
SatMul(a, b) == IF a > (MemCapBytes + 1) \div b THEN MemCapBytes + 1 ELSE a * b

RECURSIVE Size(_)
Size(shape) == IF shape = <<>> THEN 1 ELSE SatMul(Size(Tail(shape)), Head(shape))

\* ndarray.nbytes
NBytes(shape, itemsize) == SatMul(Size(shape), itemsize)

\* variant: the new axis is added last instead of first
With2DAsStack_trailing(shape) == IF Len(shape) = 2 THEN shape \o <<1>> ELSE shape

\* tiff_data[np.newaxis, ...] for a 2-D array
With2DAsStack(shape) == IF Len(shape) = 2 THEN <<1>> \o shape ELSE shape

\* data.shape[0]
LeadingDim(shape) == shape[1]

(***************************************************************************)
(* DataManager.update_status and update_progress                           *)
(***************************************************************************)
\* variant: the callback is invoked twice
Deliver_twice(log, callback, items) ==
    IF callback THEN log \o items \o items ELSE log

\* "if self.status_callback: self.status_callback(message)", and the same for
\* progress, for each of the items in turn: the log of a callback grows by
\* the items when the callback was supplied
Deliver(log, callback, items) == IF callback THEN log \o items ELSE log

\* the update_status and update_progress calls a DataManager method makes
\* when it starts (the logs cover one call) ...
FirstReports(st, pr) ==
    /\ status_seen' = Deliver(<<>>, status_callback, st)
    /\ progress_seen' = Deliver(<<>>, progress_callback, pr)
    /\ UNCHANGED <<status_callback, progress_callback>>

\* ... and when it goes on
Reports(st, pr) ==
    /\ status_seen' = Deliver(status_seen, status_callback, st)
    /\ progress_seen' = Deliver(progress_seen, progress_callback, pr)
    /\ UNCHANGED <<status_callback, progress_callback>>

\* update_status(message), called by a client
UpdateStatus(message) ==
    /\ pc \in {"idle", "returned"}
    /\ FirstReports(<<message>>, <<>>)
    /\ last' = [NoCall EXCEPT !.op = "update_status"]
    /\ UNCHANGED <<data, total_frames, temp_files, disk, guiVars, runVars>>

\* update_progress(value), called by a client
UpdateProgress(value) ==
    /\ pc \in {"idle", "returned"}
    /\ FirstReports(<<>>, <<value>>)
    /\ last' = [NoCall EXCEPT !.op = "update_progress"]
    /\ UNCHANGED <<data, total_frames, temp_files, disk, guiVars, runVars>>

\* the progress values the methods report
ProgressLoading == 10       \* load_file, before the file is looked at
ProgressDone == 100         \* load_file, run_sofi, save_result: at the end
ProgressRunStart == 0       \* run_sofi: "Initialize progress"
ProgressLoaded == 20        \* run_sofi: after the data is loaded
ProgressMoments == 50       \* run_sofi: before calc_moments_set
\* variant: before the cumulants a value below the one reported before the
\* moments
ProgressCumulants_low == ProgressMoments - 10

ProgressCumulants == 70     \* run_sofi: before cumulants_images
ProgressSaving == 10        \* save_result, before the image is written


(***************************************************************************)
(* DataManager.load_file                                                   *)
(***************************************************************************)
\* "if hasattr(self, 'data') and self.data is not None: del self.data"
AfterDel(d) == IF d.st = "set" THEN AbsentData ELSE d

\* except-handler: "if hasattr(self, 'data'): self.data = None"
AfterClear(d) == IF d.st = "absent" THEN d ELSE NoData

\* variant: the existence check is left out
PathExists_skipped(f) == TRUE

PathExists(f) == f.exists

\* variant: the cap is compared in kilobytes instead of megabytes
OverDiskCap_kb(f) == f.size \div 1024 > DiskCapBytes

OverDiskCap(f) == f.size > DiskCapBytes

OverMemCap(shape, itemsize) == NBytes(shape, itemsize) > MemCapBytes

\* the result of load_file(f) on a manager holding data d and frame count n:
\* the new data and frame count, the returned pair, and the number of
\* tifffile.imread calls made
LoadResult(d, n, f) ==
    LET d0 == AfterDel(d)
        fail(msg, k) == [data |-> AfterClear(d0), total_frames |-> n, success |-> FALSE,
                         msg |-> <<"Failed to load TIFF stack: ">> \o msg, decodes |-> k,
                         status |-> <<"Loading ", "Error loading file: ">>,
                         progress |-> <<ProgressLoading>>]
        stacked == With2DAsStack(f.shape)
    IN  IF ~PathExists(f) THEN fail(<<"Could not find the file: ">>, 0)
        ELSE IF OverDiskCap(f) THEN
            [data |-> d0, total_frames |-> n, success |-> FALSE,
             msg |-> <<"The file is ", " MB, which may cause memory issues.">>, decodes |-> 0,
             status |-> <<"Loading ">>, progress |-> <<ProgressLoading>>]
        ELSE IF ~f.decodes THEN fail(<<"Failed to read TIFF file: ", "<tifffile error>">>, 1)
        ELSE IF Len(stacked) < 3 THEN fail(<<"Failed to read TIFF file: ", "Image stack must have at least 3 dimensions (frames, height, width)">>, 1)
        ELSE IF OverMemCap(stacked, f.itemsize) THEN
            [data |-> d0, total_frames |-> n, success |-> FALSE,
             msg |-> <<"This data will use ", " MB of memory, which may crash the application.">>, decodes |-> 1,
             status |-> <<"Loading ">>, progress |-> <<ProgressLoading>>]
        ELSE
            [data |-> SetData(stacked), total_frames |-> LeadingDim(stacked),
             success |-> TRUE, msg |-> <<"Successfully loaded ">>, decodes |-> 1,
             status |-> <<"Loading ", "Loaded ">>,
             progress |-> <<ProgressLoading, ProgressDone>>]

LoadFile(f) ==
    LET r == LoadResult(data, total_frames, f)
    IN  /\ data' = r.data
        /\ total_frames' = r.total_frames
        /\ last' = [NoCall EXCEPT !.op = "load_file", !.success = r.success,
                                  !.msg = r.msg, !.decodes = r.decodes, !.file = FileInfo(f)]
        /\ FirstReports(r.status, r.progress)
        /\ UNCHANGED <<temp_files, disk, guiVars, runVars>>

(***************************************************************************)
(* DataManager._cleanup_temp_files and the temporary files it tracks       *)
(***************************************************************************)
\* variant: only the most recently created file can be removed
RemoveOutcome_partial(d, p, fails) ==
    IF p \in fails \/ (\E q \in d : q # p) THEN d ELSE d \ {p}

\* os.remove(p): the path is gone unless the removal raises
RemoveOutcome(d, p, fails) == IF p \in fails THEN d ELSE d \ {p}

\* the loop over self.temp_files; fails = the paths whose os.remove raises
RECURSIVE CleanupDisk(_, _, _)
CleanupDisk(tf, d, fails) ==
    IF tf = <<>> THEN d
    ELSE CleanupDisk(Tail(tf),
                     IF Head(tf) \in d THEN RemoveOutcome(d, Head(tf), fails) ELSE d,
                     fails)

Range(s) == { s[i] : i \in 1..Len(s) }

\* a file is created on disk
CreateTempFile(p) ==
    /\ p \notin disk
    /\ disk' = disk \cup {p}
    /\ last' = NoCall
    /\ UNCHANGED <<data, total_frames, temp_files, cbVars, guiVars, runVars>>

\* temp_files.append(p)
TrackTempFile(p) ==
    /\ Len(temp_files) < MaxTemp
    /\ temp_files' = Append(temp_files, p)
    /\ last' = NoCall
    /\ UNCHANGED <<data, total_frames, disk, cbVars, guiVars, runVars>>

CleanupTempFiles(fails) ==
    /\ disk' = CleanupDisk(temp_files, disk, fails)
    /\ temp_files' = <<>>
    /\ last' = [NoCall EXCEPT !.op = "cleanup", !.success = TRUE,
                              !.tracked = Range(temp_files),
                              !.failed = fails \cap Range(temp_files) \cap disk]
    /\ UNCHANGED <<data, total_frames, cbVars, guiVars, runVars>>

(***************************************************************************)
(* DataVisualizer.set_data (stack visualizer) and SOFIGUI load flow        *)
(***************************************************************************)
NoVis == [data |-> NoData, total_frames |-> 0, current_frame |-> 0]

\* set_data on the stack visualizer, followed by display_frame(0)
VisSetData(d) == [data |-> d, total_frames |-> LeadingDim(d.shape), current_frame |-> 0]

Min(a, b) == IF a < b THEN a ELSE b

NoGui == [op |-> "none", file |-> FileInfo(MissingFile), loads |-> 0, decodes |-> 0,
          loaded |-> FALSE, error |-> FALSE]

\* SOFIGUI._load_file_from_path(path) on file f; confirm1 answers the
\* "Large File Warning", confirm2 the "Do you want to try anyway?" dialog
LoadFileFromPath(path, f, confirm1, confirm2) ==
    IF ~f.exists THEN
        \* os.path.getsize raises; the handler reports and resets the path
        /\ file_path_var' = ""
        /\ gui' = [NoGui EXCEPT !.op = "load", !.file = FileInfo(f), !.error = TRUE]
        /\ UNCHANGED <<dmVars, frames_var, vis, ctlVars, playVars, runVars>>
    ELSE IF OverDiskCap(f) /\ ~confirm1 THEN
        /\ file_path_var' = path
        /\ gui' = [NoGui EXCEPT !.op = "load", !.file = FileInfo(f)]
        /\ UNCHANGED <<dmVars, frames_var, vis, ctlVars, playVars, runVars>>
    ELSE
        LET r1 == LoadResult(data, total_frames, f)
            again == ~r1.success /\ confirm2
            r2 == LoadResult(r1.data, r1.total_frames, f)
            r == IF again THEN r2 ELSE r1
        IN  /\ file_path_var' = path
            /\ data' = r.data
            /\ total_frames' = r.total_frames
            /\ last' = [NoCall EXCEPT !.op = "load_file", !.success = r.success,
                                      !.msg = r.msg, !.decodes = r.decodes, !.file = FileInfo(f)]
            /\ gui' = [NoGui EXCEPT !.op = "load", !.file = FileInfo(f),
                                    !.loads = IF again THEN 2 ELSE 1,
                                    !.decodes = r1.decodes + (IF again THEN r2.decodes ELSE 0),
                                    !.loaded = r.success]
            /\ IF r.success
               THEN /\ vis' = VisSetData(r.data)
                    /\ frames_var' = Min(GuiMaxFrames, r.total_frames)
                    /\ notebook' = "orig"
               ELSE UNCHANGED <<frames_var, vis, notebook>>
            /\ FirstReports(r.status, r.progress)
            /\ UNCHANGED <<temp_files, disk, run_button, workers, sofi_vis, ui_writes,
                           gui_run, save_button, playVars, runVars>>

(***************************************************************************)
(* DataManager.run_sofi                                                    *)
(***************************************************************************)


Orders == 2..MaxOrder
CumulantKeys == 1..MaxOrder
Weightings == {"none", "tvmoments"}

\* the parameter dictionaries a caller passes: complete ones, and ones that
\* leave everything but the order to the defaults
ParamDicts ==
    [order : Orders, weighting : Weightings, deconv : BOOLEAN,
     bleach_correction : BOOLEAN, drift_correction : BOOLEAN]
    \cup { [order |-> o] : o \in Orders }

\* dict.get(k, default)
Get(d, k, default) == IF k \in DOMAIN d THEN d[k] ELSE default

\* "Get parameters with defaults"
ReadParams(d) ==
    [order |-> Get(d, "order", 2),
     weighting |-> Get(d, "weighting", "tvmoments"),
     deconv |-> Get(d, "deconv", FALSE),
     bleach |-> Get(d, "bleach_correction", FALSE),
     drift |-> Get(d, "drift_correction", FALSE)]

DefaultParams == [order |-> 2, weighting |-> "tvmoments", deconv |-> FALSE,
                  bleach |-> FALSE, drift |-> FALSE]

NoResult == [kind |-> "none", order |-> 0]
\* the PysofiData object, with a record of the calls on it that raised:
\* failed is the first step that failed for good, typeerror whether the first
\* cumulants_images call raised a TypeError
NoSofi == [frames |-> FALSE, cumulants_set |-> {}, fourier |-> "none",
           typeerror |-> FALSE, failed |-> "none"]
\* the returned triple (result: its third element is an image), the order the
\* message names, and whether the call assigned sofi_result
NoRet == [raised |-> FALSE, success |-> FALSE, msg |-> <<>>, result |-> FALSE,
          order_used |-> 0, stored |-> FALSE]

\* the object after a call on it raised (or left no frames) in the given step
Failed(so, step) == [so EXCEPT !.failed = IF @ = "none" THEN step ELSE @]

Count(s, x) == Cardinality({ i \in 1..Len(s) : s[i] = x })

\* "hasattr(PysofiData, m) and not PysofiData.m.__module__ == __name__": the
\* method is the library's own, not one attached by this module
PackageImplementation(m) == m \in PysofiData.native

\* 'if weighting != "none":'
WeightingRequested(par) == par.weighting # "none"

\* "if bleach_correction:" / "if drift_correction:" / "if deconv and order > 2:"
BleachRequested(par) == par.bleach
DriftRequested(par) == par.drift

\* variant: the order is not looked at
DeconvRequested_anyorder(par) == par.deconv

DeconvRequested(par) == par.deconv /\ par.order > 2

\* the step that follows each step when it has returned normally
AfterLoad(par) ==
    IF BleachRequested(par) THEN "bleach"
    ELSE IF DriftRequested(par) THEN "drift" ELSE "moments"
\* variant: drift correction is skipped after a bleach correction
AfterBleach_nodrift(par) == "moments"

AfterBleach(par) == IF DriftRequested(par) THEN "drift" ELSE "moments"
AfterCumulants(par) == IF DeconvRequested(par) THEN "deconv" ELSE "extract"

\* variant: a bare "except:" retries after any error
OnCumulantsError_bare(attempt, outcome) ==
    IF attempt = 1 THEN "cumulants_retry" ELSE "abort"

\* "except TypeError:" around the first cumulants_images call; attempt is the
\* number of the call that raised
OnCumulantsError(attempt, outcome) ==
    IF attempt = 1 /\ outcome = "typeerror" THEN "cumulants_retry" ELSE "abort"

\* variant: a failing correction is only reported and the run goes on
OnCorrectionError_warn(step) == "continue"

\* "except Exception" around a correction: "return False, ..., None"
OnCorrectionError(step) == "abort"

\* "except Exception" around reconstruct_fourier: the result is taken from
\* cumulants_set instead
OnDeconvError(par) == "extract"

Max(S) == CHOOSE m \in S : \A x \in S : x <= m

\* "order = max(available)"
FallbackOrder(available) == Max(available)

\* the image run_sofi takes as its result, or the error it runs into
ExtractResult(par, so) ==
    IF DeconvRequested(par) THEN
        IF so.fourier = "has"
        THEN [ok |-> TRUE, kind |-> "fourier", order |-> par.order]
        ELSE IF par.order \in so.cumulants_set
        THEN [ok |-> TRUE, kind |-> "cumulant", order |-> par.order]
        ELSE [ok |-> FALSE, kind |-> "none", order |-> par.order]   \* KeyError
    ELSE IF par.order \in so.cumulants_set
        THEN [ok |-> TRUE, kind |-> "cumulant", order |-> par.order]
    ELSE IF so.cumulants_set # {}
        THEN [ok |-> TRUE, kind |-> "cumulant", order |-> FallbackOrder(so.cumulants_set)]
    ELSE [ok |-> FALSE, kind |-> "none", order |-> par.order]       \* "No results available"

\* "return False, <message>, None" from inside the try block
ReturnFailure(msg) ==
    /\ pc' = "returned"
    /\ ret' = [NoRet EXCEPT !.msg = msg]

\* "except Exception as e:" of run_sofi: clean up, report, return failure
AbortRun(fails) ==
    /\ pc' = "returned"
    /\ ret' = [NoRet EXCEPT !.msg = <<"SOFI calculation failed: ">>]
    /\ disk' = CleanupDisk(temp_files, disk, fails)
    /\ temp_files' = <<>>

\* an API client assigns the attribute run_sofi reads; nothing in the
\* repository does
SetFilePath(v) ==
    /\ pc \in {"idle", "returned"}
    /\ file_path # v
    /\ file_path' = v
    /\ UNCHANGED <<dmVars, guiVars, sofi_result, pyVars, pc, params, calls, sofi, ret>>

\* run_sofi up to the creation of the PysofiData object
RunSofi(d) ==
    /\ pc \in {"idle", "returned"}
    /\ calls' = <<>>
    /\ sofi' = NoSofi
    /\ IF ~pysofi THEN
            /\ pc' = "returned"
            /\ ret' = [NoRet EXCEPT !.msg = <<"PySOFI package not found. Please install it with: pip install pysofi">>]
            /\ params' = DefaultParams
       ELSE IF file_path = "absent" THEN
            /\ pc' = "returned"
            /\ ret' = [NoRet EXCEPT !.raised = TRUE, !.msg = <<"AttributeError: 'DataManager' object has no attribute 'file_path'">>]
            /\ params' = ReadParams(d)
       ELSE IF file_path = "none" THEN
            /\ pc' = "returned"
            /\ ret' = [NoRet EXCEPT !.msg = <<"No file loaded. Please load a file first.">>]
            /\ params' = ReadParams(d)
       ELSE /\ pc' = "load"
            /\ ret' = NoRet
            /\ params' = ReadParams(d)
    /\ FirstReports(<<>>, IF pysofi /\ file_path \notin {"absent", "none"}
                          THEN <<ProgressRunStart>> ELSE <<>>)
    /\ UNCHANGED <<dataVars, guiVars, file_path, sofi_result, pyVars>>

\* sofi.load_tiff(self.file_path), or tifffile.imread when it is missing
StepLoad(outcome) ==
    /\ pc = "load"
    /\ calls' = Append(calls, "load")
    /\ CASE outcome = "ok" ->
                /\ sofi' = [sofi EXCEPT !.frames = TRUE]
                /\ pc' = AfterLoad(params)
                /\ Reports(<<"Creating PySOFI data object...", "Loading data into PySOFI...">>, <<ProgressLoaded>>)
                /\ UNCHANGED ret
         [] outcome = "raise" ->
                /\ ReturnFailure(<<"Failed to load data into PySOFI: ">>)
                /\ Reports(<<"Creating PySOFI data object...", "Loading data into PySOFI...", "Error loading data: ">>, <<>>)
                /\ sofi' = Failed(sofi, "load")
         [] outcome = "noframes" ->
                /\ ReturnFailure(<<"Failed to load frames data into PySOFI">>)
                /\ Reports(<<"Creating PySOFI data object...", "Loading data into PySOFI...">>, <<ProgressLoaded>>)
                /\ sofi' = Failed(sofi, "load")
    /\ UNCHANGED <<dataVars, guiVars, file_path, sofi_result, pyVars, params>>

\* sofi.bleach_correction()
StepBleach(outcome) ==
    /\ pc = "bleach"
    /\ calls' = Append(calls, "bleach")
    /\ sofi' = IF outcome = "ok" THEN sofi ELSE Failed(sofi, "bleach")
    /\ IF outcome = "ok" \/ OnCorrectionError("bleach") # "abort"
       THEN pc' = AfterBleach(params) /\ UNCHANGED ret
       ELSE ReturnFailure(<<"Bleaching correction failed: ">>)
    /\ Reports(<<"Applying bleaching correction...",
                 IF PackageImplementation("bleach_correction")
                 THEN "Using PySOFI package bleaching correction..." ELSE "Using internal bleaching correction implementation...",
                 IF outcome = "ok" THEN "Bleaching correction applied" ELSE "Warning: Bleaching correction error: ">>, <<>>)
    /\ UNCHANGED <<dataVars, guiVars, file_path, sofi_result, pyVars, params>>

\* sofi.drift_correction()
StepDrift(outcome) ==
    /\ pc = "drift"
    /\ calls' = Append(calls, "drift")
    /\ sofi' = IF outcome = "ok" THEN sofi ELSE Failed(sofi, "drift")
    /\ IF outcome = "ok" \/ OnCorrectionError("drift") # "abort"
       THEN pc' = "moments" /\ UNCHANGED ret
       ELSE ReturnFailure(<<"Drift correction failed: ">>)
    /\ Reports(<<"Applying drift correction...",
                 IF PackageImplementation("drift_correction")
                 THEN "Using PySOFI package drift correction..." ELSE "Using internal drift correction implementation...",
                 IF outcome = "ok" THEN "Drift correction applied" ELSE "Warning: Drift correction error: ">>, <<>>)
    /\ UNCHANGED <<dataVars, guiVars, file_path, sofi_result, pyVars, params>>

\* sofi.calc_moments_set(highest_order=order)
StepMoments(outcome, fails) ==
    /\ pc = "moments"
    /\ calls' = Append(calls, "moments")
    /\ IF outcome = "ok"
       THEN pc' = "cumulants" /\ UNCHANGED <<ret, temp_files, disk, sofi>>
       ELSE AbortRun(fails) /\ sofi' = Failed(sofi, "moments")
    /\ Reports(<<"Calculating statistical moments...">> \o (IF outcome = "ok" THEN <<>> ELSE <<"SOFI analysis failed">>),
               <<ProgressMoments>>)
    /\ UNCHANGED <<data, total_frames, last, guiVars, file_path, sofi_result, pyVars, params>>

\* sofi.cumulants_images(highest_order=order, weighting=...): keys are the
\* orders the library leaves in cumulants_set
StepCumulants(outcome, keys, fails) ==
    /\ pc = "cumulants"
    /\ calls' = Append(calls, "cumulants")
    /\ IF outcome = "ok" THEN
            /\ sofi' = [sofi EXCEPT !.cumulants_set = keys]
            /\ pc' = AfterCumulants(params)
            /\ UNCHANGED <<ret, temp_files, disk>>
       ELSE IF OnCumulantsError(1, outcome) = "abort" THEN
            /\ AbortRun(fails)
            /\ sofi' = Failed(sofi, "cumulants")
       ELSE /\ sofi' = [sofi EXCEPT !.typeerror = (outcome = "typeerror")]
            /\ pc' = OnCumulantsError(1, outcome)
            /\ UNCHANGED <<ret, temp_files, disk>>
    /\ Reports((IF WeightingRequested(params) THEN <<"Applying {weighting} weighting...">> ELSE <<>>)
               \o <<"Calculating cumulants...">>
               \o (IF outcome # "ok" /\ OnCumulantsError(1, outcome) = "abort"
                   THEN <<"SOFI analysis failed">> ELSE <<>>),
               <<ProgressCumulants>>)
    /\ UNCHANGED <<data, total_frames, last, guiVars, file_path, sofi_result, pyVars, params>>

\* sofi.cumulants_images(highest_order=order), after a TypeError
StepCumulantsRetry(outcome, keys, fails) ==
    /\ pc = "cumulants_retry"
    /\ calls' = Append(calls, "cumulants")
    /\ IF outcome = "ok" THEN
            /\ sofi' = [sofi EXCEPT !.cumulants_set = keys]
            /\ pc' = AfterCumulants(params)
            /\ UNCHANGED <<ret, temp_files, disk>>
       ELSE IF OnCumulantsError(Count(calls', "cumulants"), outcome) = "abort" THEN
            /\ AbortRun(fails)
            /\ sofi' = Failed(sofi, "cumulants")
       ELSE /\ pc' = OnCumulantsError(Count(calls', "cumulants"), outcome)
            /\ UNCHANGED <<sofi, ret, temp_files, disk>>
    /\ Reports(IF outcome # "ok"
                  /\ OnCumulantsError(Count(calls', "cumulants"), outcome) = "abort"
               THEN <<"SOFI analysis failed">> ELSE <<>>, <<>>)
    /\ UNCHANGED <<data, total_frames, last, guiVars, file_path, sofi_result, pyVars, params>>

\* sofi.reconstruct_fourier(orders=[order]): it raises, or returns with or
\* without fourier_result[order]
StepDeconv(outcome, fails) ==
    /\ pc = "deconv"
    /\ calls' = Append(calls, "deconv")
    /\ sofi' = IF outcome = "raise"
               THEN [Failed(sofi, "deconv") EXCEPT !.fourier = outcome]
               ELSE [sofi EXCEPT !.fourier = outcome]
    /\ IF outcome = "raise" /\ OnDeconvError(params) = "abort"
       THEN AbortRun(fails)
       ELSE pc' = "extract" /\ UNCHANGED <<ret, temp_files, disk>>
    /\ Reports(<<"Applying deconvolution...",
                 CASE outcome = "has" -> "Deconvolution applied successfully"
                   [] outcome = "hasnot" -> "Warning: Deconvolution produced no result, using regular SOFI instead"
                   [] outcome = "raise" -> "Warning: Deconvolution error: ">>, <<>>)
    /\ UNCHANGED <<data, total_frames, last, guiVars, file_path, sofi_result, pyVars, params>>

\* the result is taken from fourier_result or cumulants_set, and the call
\* cleans up and returns
StepExtract(fails) ==
    LET r == ExtractResult(params, sofi)
    IN  /\ pc = "extract"
        /\ calls' = Append(calls, "extract")
        /\ IF r.ok THEN
                /\ sofi_result' = [kind |-> r.kind, order |-> r.order]
                /\ disk' = CleanupDisk(temp_files, disk, fails)
                /\ temp_files' = <<>>
                /\ pc' = "returned"
                /\ ret' = [NoRet EXCEPT !.success = TRUE, !.msg = <<"Successfully completed {order}-order SOFI analysis">>,
                                        !.result = TRUE, !.order_used = r.order,
                                        !.stored = TRUE]
           ELSE /\ AbortRun(fails)
                /\ UNCHANGED sofi_result
        /\ IF r.ok THEN Reports(<<"SOFI analysis complete: order ">>, <<ProgressDone>>)
                   ELSE Reports(<<"SOFI analysis failed">>, <<>>)
        /\ UNCHANGED <<data, total_frames, last, guiVars, file_path, pyVars, params, sofi>>

(***************************************************************************)
(* DataManager.save_result                                                 *)
(***************************************************************************)

\* variant: the image is normalized in place before it is written
ResultAfterSave_normalized(r) == [r EXCEPT !.kind = "normalized"]

\* sofi_result after save_result: the image is converted and normalized in
\* the local result_to_save, by expressions that build a new array
ResultAfterSave(r) == r

\* save_result(save_path); outcome: whether the writer returns or raises
SaveResult(outcome) ==
    /\ pc \in {"idle", "returned"}
    /\ IF sofi_result.kind = "none" THEN
            /\ last' = [NoCall EXCEPT !.op = "save_result", !.msg = <<"No result to save. Please run SOFI analysis first.">>]
            /\ FirstReports(<<>>, <<>>)
            /\ UNCHANGED sofi_result
       ELSE /\ sofi_result' = ResultAfterSave(sofi_result)
            /\ last' = [NoCall EXCEPT !.op = "save_result", !.success = (outcome = "ok"),
                          !.msg = IF outcome = "ok" THEN <<"Successfully saved to ">> ELSE <<"Failed to save file: ">>]
            /\ IF outcome = "ok"
               THEN FirstReports(<<"Saving results...", "Saved to ">>, <<ProgressSaving, ProgressDone>>)
               ELSE FirstReports(<<"Saving results...", "Error saving file: ">>, <<ProgressSaving>>)
    /\ UNCHANGED <<data, total_frames, temp_files, disk, guiVars,
                   file_path, pyVars, pc, params, calls, sofi, ret>>

(***************************************************************************)
(* DataManager.__init__, called by a client                                *)
(***************************************************************************)
\* a client binds its manager to DataManager(status_callback, progress_callback);
\* sc and pcb tell whether a callback is passed. The manager it replaces is
\* collected, and its __del__ removes its temporary files
Construct(sc, pcb) ==
    /\ pc \in {"idle", "returned"}
    /\ data' = NoData
    /\ sofi_result' = NoResult
    /\ total_frames' = 0
    /\ status_callback' = sc
    /\ progress_callback' = pcb
    /\ disk' = CleanupDisk(temp_files, disk, {})
    /\ temp_files' = <<>>
    /\ file_path' = "absent"
    /\ status_seen' = <<>>
    /\ progress_seen' = <<>>
    /\ last' = [NoCall EXCEPT !.op = "construct"]
    /\ UNCHANGED <<guiVars, pyVars, pc, params, calls, sofi, ret>>

(***************************************************************************)
(* SOFIGUI: the run control and the analysis thread                        *)
(***************************************************************************)
MaxWorkers == 2         \* analysis threads that can exist at a time

Workers == 1..MaxWorkers
NoWorker == [pc |-> "none", parameters |-> <<>>]

\* the dictionaries _run_sofi builds from the widgets
GuiParamDicts ==
    [order : Orders, frames : {GuiMaxFrames}, method : {"xc"}, weight : {"none"},
     bleach_correction : BOOLEAN, drift_correction : BOOLEAN, deconvolution : BOOLEAN]

Wrote(thread, item) == ui_writes \cup {<<thread, item>>}

\* variant: the handler leaves the run control enabled
RunButtonDuringRun_enabled == "normal"

\* "self.run_button.configure(state=tk.DISABLED)"
RunButtonDuringRun == "disabled"

\* SOFIGUI._run_sofi, the command of the run control; d is the dictionary
\* read from the widgets, starts whether Thread.start() returns
RunClick(d, starts) ==
    /\ run_button = "normal"
    /\ ~closed
    /\ CASE data.st = "absent" ->
                \* "self.data_manager.data" raises AttributeError
                /\ gui_run' = "error"
                /\ UNCHANGED <<run_button, workers, ui_writes>>
         [] data.st = "none" ->
                /\ gui_run' = "warning"
                /\ UNCHANGED <<run_button, workers, ui_writes>>
         [] data.st = "set" /\ ~starts ->
                /\ gui_run' = "failed"
                /\ run_button' = "normal"
                /\ ui_writes' = ui_writes \cup {<<"ui", "run_control">>, <<"ui", "status">>}
                /\ UNCHANGED workers
         [] data.st = "set" /\ starts ->
                /\ \E w \in Workers :
                      /\ workers[w].pc = "none"
                      /\ \A v \in 1..(w - 1) : workers[v].pc # "none"
                      /\ workers' = [workers EXCEPT ![w] = [pc |-> "started", parameters |-> d]]
                /\ gui_run' = "started"
                /\ run_button' = RunButtonDuringRun
                /\ ui_writes' = Wrote("ui", "run_control")
    /\ UNCHANGED <<dmVars, file_path_var, frames_var, vis, gui, sofi_vis, notebook,
                   save_button, playVars, runVars>>

\* _run_sofi_thread up to the call of run_sofi
WorkerBegin(w) ==
    /\ workers[w].pc = "started"
    /\ workers' = [workers EXCEPT ![w].pc = "calling"]
    /\ ui_writes' = Wrote("worker", "status")
    /\ pc' = "idle"
    /\ UNCHANGED <<dmVars, file_path_var, frames_var, vis, gui, run_button, sofi_vis,
                   gui_run, notebook, save_button, playVars, file_path, sofi_result, pyVars, params, calls, sofi, ret>>

\* "self.data_manager.run_sofi(parameters)" on the analysis thread
WorkerRunSofi(w) ==
    /\ workers[w].pc = "calling"
    /\ pc = "idle"
    /\ RunSofi(workers[w].parameters)

\* the parameters of DataVisualizer.set_data besides self, and the keyword
\* arguments _run_sofi_thread passes next to the image
SetDataParameters == {"data", "order", "method", "frames"}
ResultKeywords == {"is_sofi", "order"}

\* a call with keyword arguments raises TypeError unless the function has a
\* parameter of each name
Binds(keywords, parameters) == keywords \subseteq parameters

\* the image set_data shows for the result r of a run with dictionary d
ResultView(r, d) == [kind |-> r.kind, order |-> Get(d, "order", 2)]

\* _run_sofi_thread after run_sofi has returned or raised, up to its
\* "finally" clause
WorkerShow(w) ==
    /\ workers[w].pc = "calling"
    /\ pc = "returned"
    /\ IF ret.success /\ ~ret.raised /\ Binds(ResultKeywords, SetDataParameters)
       THEN /\ sofi_vis' = ResultView(sofi_result, workers[w].parameters)
            /\ notebook' = "sofi"
            /\ save_button' = "normal"
            /\ ui_writes' = ui_writes \cup {<<"worker", "status">>, <<"worker", "result_view">>,
                                            <<"worker", "save_control">>}
       ELSE \* the failure is reported; a TypeError of the set_data call is
            \* caught by "except Exception" and reported
            /\ ui_writes' = Wrote("worker", "status")
            /\ UNCHANGED <<sofi_vis, notebook, save_button>>
    /\ workers' = [workers EXCEPT ![w].pc = "finally"]
    /\ UNCHANGED <<dmVars, file_path_var, frames_var, vis, gui, run_button, gui_run,
                   playVars, runVars>>

\* "finally: self.run_button.configure(state=tk.NORMAL)", and the thread ends
WorkerFinish(w) ==
    /\ workers[w].pc = "finally"
    /\ run_button' = "normal"
    /\ ui_writes' = Wrote("worker", "run_control")
    /\ workers' = [workers EXCEPT ![w] = NoWorker]
    /\ UNCHANGED <<dmVars, file_path_var, frames_var, vis, gui, sofi_vis, gui_run,
                   notebook, save_button, playVars, runVars>>

(***************************************************************************)
(* DataVisualizer: playback of the stack and seeking                       *)
(***************************************************************************)
MaxPlayers == 2         \* play_animation threads started in one behaviour
PlayFrames == 3         \* frames of the stack that is played

\* a play_animation thread: where it stands, its local "current", and a
\* record of its run: the frame it started from, the frames it has published,
\* the advances it has made since is_playing was cleared (late; 0 while the
\* flag is set), whether the user has acted since it was started, and how it
\* ended
NewPlayer == [pc |-> "begin", current |-> 0, start |-> 0, published |-> <<>>,
              late |-> 0, disturbed |-> FALSE, how |-> "none"]

Disturbed(ps) == [i \in DOMAIN ps |-> [ps[i] EXCEPT !.disturbed = TRUE]]
Restarted(ps) == [i \in DOMAIN ps |-> [ps[i] EXCEPT !.late = 0]]

FrameEvent(f) == [kind |-> "frame", frame |-> f]
ButtonEvent == [kind |-> "button", frame |-> 0]

\* display_frame(idx)
DisplayFrame(v, idx) ==
    IF v.data.st # "set" \/ v.total_frames = 0 \/ ~(0 <= idx /\ idx < v.total_frames)
    THEN v
    ELSE [v EXCEPT !.current_frame = idx]

\* variant: a seek ends the playback
PlayingAfterSeek_stops(playing) == FALSE

\* is_playing after prev_frame, next_frame or a slider handler: none of them
\* assigns it
PlayingAfterSeek(playing) == playing

\* play_pause, the command of the play button
PlayPause ==
    /\ ~closed
    /\ vis.data.st = "set"
    /\ IF is_playing
       THEN /\ is_playing' = FALSE
            /\ play_button' = "play"
            /\ players' = Disturbed(players)
       ELSE /\ Len(players) < MaxPlayers
            /\ is_playing' = TRUE
            /\ play_button' = "pause"
            /\ players' = Append(Restarted(Disturbed(players)), NewPlayer)
    /\ UNCHANGED <<dmVars, file_path_var, frames_var, vis, gui, ctlVars, play_thread_id,
                   events, slider_update_id, closed, runVars>>

\* what a seek handler leaves of the playback state
Seek(v) ==
    /\ ~closed
    /\ vis.data.st = "set"
    /\ vis' = v
    /\ is_playing' = PlayingAfterSeek(is_playing)
    /\ players' = Disturbed(players)
    /\ UNCHANGED <<dmVars, file_path_var, frames_var, gui, ctlVars, play_button,
                   play_thread_id, events, closed, runVars>>

Max2(a, b) == IF a > b THEN a ELSE b

PrevFrame ==
    LET f == Max2(0, vis.current_frame - 1)
    IN  /\ Seek(DisplayFrame([vis EXCEPT !.current_frame = f], f))
        /\ UNCHANGED slider_update_id

NextFrame ==
    LET f == Min(vis.total_frames - 1, vis.current_frame + 1)
    IN  /\ Seek(DisplayFrame([vis EXCEPT !.current_frame = f], f))
        /\ UNCHANGED slider_update_id

\* idx stands for int(self.frame_slider.get()): the position of the slider,
\* which the user drags and the scheduled frame updates set

\* on_slider_press and on_slider_motion, which schedules
\* _update_frame_from_slider; they show idx in the frame counter only
SliderMotion ==
    /\ Seek(vis)
    /\ slider_update_id' = TRUE

\* the frame the slider handlers go to
SliderFrame(v, idx) ==
    IF 0 <= idx /\ idx < v.total_frames
    THEN DisplayFrame([v EXCEPT !.current_frame = idx], idx)
    ELSE v

\* _update_frame_from_slider, when its timer fires
UpdateFrameFromSlider(idx) ==
    /\ slider_update_id
    /\ Seek(SliderFrame(vis, idx))
    /\ slider_update_id' = FALSE

\* on_slider_release
SliderRelease(idx) ==
    /\ Seek(SliderFrame(vis, idx))
    /\ slider_update_id' = FALSE

\* the steps of play_animation; i is the thread, and its thread_id
PlayerVarsUnchanged == UNCHANGED <<dmVars, file_path_var, frames_var, gui, ctlVars,
                                   play_button, slider_update_id, closed, runVars>>

\* the thread ends; how: "end" after the last frame, "exit" when stopped or
\* superseded, "error" in the except clause or on an escaping error
Ended(i, how) == [players EXCEPT ![i].pc = "done", ![i].how = how]

\* "current = self.current_frame ... self.play_thread_id = thread_id"
PlayerBegin(i) ==
    /\ i \in DOMAIN players
    /\ players[i].pc = "begin"
    /\ IF closed
       THEN \* winfo_toplevel() raises on the destroyed window
            /\ players' = Ended(i, "error")
            /\ UNCHANGED play_thread_id
       ELSE /\ players' = [players EXCEPT ![i].pc = "check",
                                          ![i].current = vis.current_frame,
                                          ![i].start = vis.current_frame]
            /\ play_thread_id' = i
    /\ UNCHANGED <<vis, is_playing, events>>
    /\ PlayerVarsUnchanged

\* variant: the loop does not poll the flag
StopRequested_ignored(playing) == FALSE

\* "while self.is_playing ..."
StopRequested(playing) == ~playing

\* the loop condition and the test of play_thread_id
PlayerCheck(i) ==
    /\ i \in DOMAIN players
    /\ players[i].pc = "check"
    /\ IF StopRequested(is_playing) \/ players[i].current >= vis.total_frames - 1 THEN
            /\ players' = [players EXCEPT ![i].pc = "end"]
            /\ UNCHANGED is_playing
       ELSE IF closed THEN
            \* winfo_exists() raises; "except Exception" clears the flag
            /\ players' = Ended(i, "error")
            /\ is_playing' = FALSE
       ELSE IF play_thread_id # i THEN
            /\ players' = [players EXCEPT ![i].pc = "end"]
            /\ UNCHANGED is_playing
       ELSE /\ players' = [players EXCEPT ![i].pc = "advance"]
            /\ UNCHANGED is_playing
    /\ UNCHANGED <<vis, play_thread_id, events>>
    /\ PlayerVarsUnchanged

\* variant: the loop advances by two frames
NextPosition_skip(current) == current + 2

\* "current += 1"
NextPosition(current) == current + 1

\* "self.current_frame = current" and the update scheduled with after(0, ...)
PlayerAdvance(i) ==
    LET c == NextPosition(players[i].current)
        late == IF is_playing THEN players[i].late ELSE players[i].late + 1
    IN  /\ i \in DOMAIN players
        /\ players[i].pc = "advance"
        /\ vis' = [vis EXCEPT !.current_frame = c]
        /\ IF closed
           THEN \* after() raises; "except Exception" clears the flag
                /\ players' = [Ended(i, "error") EXCEPT ![i].current = c, ![i].late = late]
                /\ is_playing' = FALSE
                /\ UNCHANGED events
           ELSE /\ players' = [players EXCEPT ![i].pc = "check", ![i].current = c,
                                              ![i].late = late,
                                              ![i].published = Append(@, c)]
                /\ events' = Append(events, FrameEvent(c))
                /\ UNCHANGED is_playing
        /\ UNCHANGED play_thread_id
        /\ PlayerVarsUnchanged

\* after the loop: "if current >= self.total_frames - 1 and winfo_exists()"
PlayerEnd(i) ==
    /\ i \in DOMAIN players
    /\ players[i].pc = "end"
    /\ IF players[i].current < vis.total_frames - 1 THEN
            /\ players' = Ended(i, "exit")
            /\ UNCHANGED <<is_playing, events>>
       ELSE IF closed THEN
            /\ players' = Ended(i, "error")
            /\ is_playing' = FALSE
            /\ UNCHANGED events
       ELSE /\ players' = [players EXCEPT ![i].pc = "clear"]
            /\ events' = Append(events, ButtonEvent)
            /\ UNCHANGED is_playing
    /\ UNCHANGED <<vis, play_thread_id>>
    /\ PlayerVarsUnchanged

\* variant: the flag is left set at the end of the stack
PlayingAfterEnd_kept == TRUE

\* "self.is_playing = False" after the last frame
PlayingAfterEnd == FALSE

PlayerClear(i) ==
    /\ i \in DOMAIN players
    /\ players[i].pc = "clear"
    /\ is_playing' = PlayingAfterEnd
    /\ players' = Ended(i, "end")
    /\ UNCHANGED <<vis, play_thread_id, events>>
    /\ PlayerVarsUnchanged

\* the UI thread runs the oldest callback scheduled with after(0, ...):
\* update_ui_for_frame(f), or the reset of the play button
ProcessEvent ==
    /\ ~closed
    /\ events # <<>>
    /\ events' = Tail(events)
    /\ IF Head(events).kind = "frame"
       THEN /\ vis' = DisplayFrame(vis, Head(events).frame)
            /\ UNCHANGED play_button
       ELSE /\ play_button' = "play"
            /\ UNCHANGED vis
    /\ UNCHANGED <<dmVars, file_path_var, frames_var, gui, ctlVars, is_playing,
                   play_thread_id, players, slider_update_id, closed, runVars>>

\* SOFIGUI._on_close: the flag is cleared and the window destroyed, with the
\* callbacks still scheduled
OnClose ==
    /\ ~closed
    /\ closed' = TRUE
    /\ is_playing' = FALSE
    /\ events' = <<>>
    /\ slider_update_id' = FALSE
    /\ players' = Disturbed(players)
    /\ UNCHANGED <<dmVars, file_path_var, frames_var, vis, gui, ctlVars, play_button,
                   play_thread_id, runVars>>

(***************************************************************************)
(* The PysofiData class: the patches made when core.data_manager is        *)
(* imported, and utils.compatibility.check_pysofi_compatibility            *)
(***************************************************************************)
RequiredMethods == {"calc_moments_set", "cumulants_images"}
OptionalMethods == {"bleach_correction", "drift_correction", "reconstruct_fourier"}

\* what an installed PySOFI may define on the class itself
Libraries == SUBSET (RequiredMethods \cup OptionalMethods)

\* the library the repository's patches are written for
PlainLibrary == RequiredMethods

\* the class before the first "from pysofi.pysofi import PysofiData"
NoClass == [loaded |-> FALSE, methods |-> {}, native |-> {}]

\* the class object after an import: the first import creates it with the
\* methods lib of the installed library, later ones return the same object
LoadClass(c, lib) ==
    IF c.loaded THEN c ELSE [loaded |-> TRUE, methods |-> lib, native |-> lib]

\* "if not hasattr(PysofiData, m): ... PysofiData.m = m" for the three
\* optional methods
WithOptionalPatches(c) == [c EXCEPT !.methods = @ \cup OptionalMethods]

\* the same for _ensure_frames_loaded
WithFramesPatch(c) == [c EXCEPT !.methods = @ \cup {"_ensure_frames_loaded"}]

\* the module-level code of core.data_manager on a class object c
PatchResult(c) ==
    IF "cumulants_images" \in c.methods
    THEN [class |-> WithFramesPatch(WithOptionalPatches(c)), outcome |-> "yes"]
    \* "original_cumulants_images = PysofiData.cumulants_images" raises
    \* AttributeError, which "except ImportError" does not catch
    ELSE [class |-> WithOptionalPatches(c), outcome |-> "failed"]

NoProbe == [ran |-> FALSE, available |-> FALSE, authentic |-> FALSE, supported |-> {},
            patched |-> FALSE]

\* the details check_pysofi_compatibility derives from dir(PysofiData):
\* supported holds the optional methods reported as "supported: Yes";
\* patched records whether core.data_manager had been imported
ProbeReport(c, imported) ==
    [ran |-> TRUE, available |-> TRUE,
     authentic |-> RequiredMethods \subseteq c.methods,
     supported |-> {m \in OptionalMethods : m \in c.methods},
     patched |-> imported]

\* the report when "import pysofi" raises ImportError
ProbeNoLibrary(imported) == [NoProbe EXCEPT !.ran = TRUE, !.patched = imported]

PyVarsUnchanged ==
    UNCHANGED <<dmVars, guiVars, file_path, sofi_result, pysofi, pc, params, calls, sofi, ret>>

\* the first import of guipysofi.core.data_manager in the process
ImportDataManager(lib) ==
    /\ dm_imported = "no"
    /\ IF ~pysofi
       THEN /\ dm_imported' = "yes"
            /\ UNCHANGED PysofiData
       ELSE LET r == PatchResult(LoadClass(PysofiData, lib))
            IN  /\ PysofiData' = r.class
                /\ dm_imported' = r.outcome
    /\ UNCHANGED probe
    /\ PyVarsUnchanged

\* check_pysofi_compatibility()
CheckCompatibility(lib) ==
    /\ IF ~pysofi
       THEN /\ probe' = ProbeNoLibrary(dm_imported # "no")
            /\ UNCHANGED PysofiData
       ELSE LET c == LoadClass(PysofiData, lib)
            IN  /\ PysofiData' = c
                /\ probe' = ProbeReport(c, dm_imported # "no")
    /\ UNCHANGED dm_imported
    /\ PyVarsUnchanged

(***************************************************************************)
(* Specifications of the data layer: loading, and temporary files          *)
(***************************************************************************)
\* the objects as their constructors leave them
InitObjects ==
    /\ data = NoData
    /\ total_frames = 0
    /\ temp_files = <<>>
    /\ disk = {}
    /\ last = NoCall
    /\ status_callback = TRUE
    /\ progress_callback = TRUE
    /\ status_seen = <<>>
    /\ progress_seen = <<>>
    /\ file_path_var = ""
    /\ frames_var = GuiMaxFrames
    /\ vis = NoVis
    /\ gui = NoGui
    /\ file_path = "absent"
    /\ sofi_result = NoResult
    /\ pysofi \in BOOLEAN
    /\ pc = "idle"
    /\ params = DefaultParams
    /\ calls = <<>>
    /\ sofi = NoSofi
    /\ ret = NoRet
    /\ run_button = (IF pysofi THEN "normal" ELSE "disabled")
    /\ workers = [w \in Workers |-> NoWorker]
    /\ sofi_vis = NoResult
    /\ ui_writes = {}
    /\ gui_run = "none"
    /\ notebook = "orig"
    /\ save_button = "normal"
    /\ is_playing = FALSE
    /\ play_button = "play"
    /\ play_thread_id = 0
    /\ players = <<>>
    /\ events = <<>>
    /\ slider_update_id = FALSE
    /\ closed = FALSE

\* the state of a started application: core.data_manager has been imported
\* and SOFIGUI.__init__ has run the compatibility check
Init ==
    /\ InitObjects
    /\ LET c == IF pysofi THEN PatchResult(LoadClass(NoClass, PlainLibrary)).class ELSE NoClass
       IN  /\ PysofiData = c
           /\ probe = IF pysofi THEN ProbeReport(c, TRUE) ELSE ProbeNoLibrary(TRUE)
    /\ dm_imported = "yes"

\* the state of a fresh interpreter: nothing has been imported
InitProcess ==
    /\ InitObjects
    /\ PysofiData = NoClass
    /\ dm_imported = "no"
    /\ probe = NoProbe

NextLoad ==
    \/ \E f \in Files : LoadFile(f)
    \/ \E path \in Paths, f \in Files, c1 \in BOOLEAN, c2 \in BOOLEAN :
           LoadFileFromPath(path, f, c1, c2)

SpecLoad == Init /\ [][NextLoad]_vars

NextTemp ==
    \/ \E p \in TempPaths : CreateTempFile(p)
    \/ \E p \in TempPaths : TrackTempFile(p)
    \/ \E fails \in SUBSET TempPaths : CleanupTempFiles(fails)

SpecTemp == Init /\ [][NextTemp]_vars

(***************************************************************************)
(* Specification of the analysis pipeline                                  *)
(***************************************************************************)
\* the files the pipeline specification loads: a missing one and a stack
RunFiles ==
    {MissingFile,
     [exists |-> TRUE, size |-> 1, decodes |-> TRUE,
      shape |-> <<MaxFrames, BigDim, BigDim>>, itemsize |-> 4]}

CallOutcomes == {"ok", "raise"}
NoFails == {{}}

NextRun ==
    \/ \E f \in RunFiles : pc \in {"idle", "returned"} /\ LoadFile(f)
    \/ \E o \in CallOutcomes : SaveResult(o)
    \/ \E v \in {"none"} \cup Paths : SetFilePath(v)
    \/ \E d \in ParamDicts : RunSofi(d)
    \/ \E o \in CallOutcomes \cup {"noframes"} : StepLoad(o)
    \/ \E o \in CallOutcomes : StepBleach(o)
    \/ \E o \in CallOutcomes : StepDrift(o)
    \/ \E o \in CallOutcomes, fails \in NoFails : StepMoments(o, fails)
    \/ \E o \in CallOutcomes \cup {"typeerror"}, keys \in SUBSET CumulantKeys,
          fails \in NoFails : StepCumulants(o, keys, fails)
    \/ \E o \in CallOutcomes \cup {"typeerror"}, keys \in SUBSET CumulantKeys,
          fails \in NoFails : StepCumulantsRetry(o, keys, fails)
    \/ \E o \in {"has", "hasnot", "raise"}, fails \in NoFails : StepDeconv(o, fails)
    \/ \E fails \in NoFails : StepExtract(fails)

SpecRun == Init /\ [][NextRun]_vars

(***************************************************************************)
(* Specification of the run control: clicks, loads and the analysis thread *)
(***************************************************************************)
\* the files the run control specification loads: a missing one, a stack and
\* a file the decoder rejects
GuiFiles ==
    RunFiles \cup {[exists |-> TRUE, size |-> 1, decodes |-> FALSE,
                    shape |-> <<>>, itemsize |-> 4]}

NextGui ==
    \/ \E path \in Paths, f \in GuiFiles, c2 \in BOOLEAN : LoadFileFromPath(path, f, FALSE, c2)
    \/ \E v \in Paths : SetFilePath(v)
    \/ \E d \in GuiParamDicts, starts \in BOOLEAN : RunClick(d, starts)
    \/ \E w \in Workers : WorkerBegin(w)
    \/ \E w \in Workers : WorkerRunSofi(w)
    \/ \E o \in CallOutcomes : StepLoad(o)
    \/ \E o \in CallOutcomes : StepBleach(o)
    \/ \E o \in CallOutcomes : StepDrift(o)
    \/ \E o \in CallOutcomes, fails \in NoFails : StepMoments(o, fails)
    \/ \E o \in CallOutcomes, keys \in {CumulantKeys}, fails \in NoFails :
          StepCumulants(o, keys, fails)
    \/ \E fails \in NoFails : StepExtract(fails)
    \/ \E w \in Workers : WorkerShow(w)
    \/ \E w \in Workers : WorkerFinish(w)

SpecGui == Init /\ [][NextGui]_vars

\* the analysis thread is a running thread: it takes its next step
WorkerStep ==
    \/ \E w \in Workers : WorkerBegin(w) \/ WorkerRunSofi(w) \/ WorkerShow(w) \/ WorkerFinish(w)
    \/ \E o \in CallOutcomes : StepLoad(o) \/ StepBleach(o) \/ StepDrift(o)
    \/ \E o \in CallOutcomes, fails \in NoFails : StepMoments(o, fails)
    \/ \E o \in CallOutcomes, keys \in {CumulantKeys}, fails \in NoFails :
          StepCumulants(o, keys, fails)
    \/ \E fails \in NoFails : StepExtract(fails)

SpecGuiFair == SpecGui /\ WF_vars(WorkerStep)

(***************************************************************************)
(* Specification of the playback: the play button, seeks, the threads      *)
(***************************************************************************)
PlayFiles ==
    {[exists |-> TRUE, size |-> 1, decodes |-> TRUE,
      shape |-> <<PlayFrames, BigDim, BigDim>>, itemsize |-> 4]}

PlayerStep(i) ==
    PlayerBegin(i) \/ PlayerCheck(i) \/ PlayerAdvance(i) \/ PlayerEnd(i) \/ PlayerClear(i)

NextPlay ==
    \/ \E path \in Paths, f \in PlayFiles :
          ~closed /\ players = <<>> /\ LoadFileFromPath(path, f, FALSE, FALSE)
    \/ PlayPause
    \/ PrevFrame
    \/ NextFrame
    \/ SliderMotion
    \/ \E idx \in 0..(PlayFrames - 1) : UpdateFrameFromSlider(idx)
    \/ \E idx \in 0..(PlayFrames - 1) : SliderRelease(idx)
    \/ \E i \in 1..MaxPlayers : PlayerBegin(i)
    \/ \E i \in 1..MaxPlayers : PlayerCheck(i)
    \/ \E i \in 1..MaxPlayers : PlayerAdvance(i)
    \/ \E i \in 1..MaxPlayers : PlayerEnd(i)
    \/ \E i \in 1..MaxPlayers : PlayerClear(i)
    \/ ProcessEvent
    \/ OnClose

SpecPlay == Init /\ [][NextPlay]_vars

\* started threads keep running, and the Tk main loop runs the callbacks
\* scheduled with after()
SpecPlayFair ==
    /\ SpecPlay
    /\ \A i \in 1..MaxPlayers : WF_vars(PlayerStep(i))
    /\ WF_vars(ProcessEvent)

(***************************************************************************)
(* Specification of the playback with loads of further stacks              *)
(***************************************************************************)
\* a stack shorter than the played one
ShorterFiles ==
    {[exists |-> TRUE, size |-> 1, decodes |-> TRUE,
      shape |-> <<PlayFrames - 1, BigDim, BigDim>>, itemsize |-> 4]}

\* the played stack is loaded first; the shorter one replaces it at any time
NextReload ==
    \/ \E path \in Paths, f \in PlayFiles :
          vis.data.st # "set" /\ LoadFileFromPath(path, f, FALSE, FALSE)
    \/ \E path \in Paths, f \in ShorterFiles :
          vis.total_frames = PlayFrames /\ LoadFileFromPath(path, f, FALSE, FALSE)
    \/ PlayPause
    \/ PrevFrame
    \/ NextFrame
    \/ \E idx \in 0..(PlayFrames - 1) : SliderRelease(idx)
    \/ \E i \in 1..MaxPlayers : PlayerBegin(i)
    \/ \E i \in 1..MaxPlayers : PlayerCheck(i)
    \/ \E i \in 1..MaxPlayers : PlayerAdvance(i)
    \/ \E i \in 1..MaxPlayers : PlayerEnd(i)
    \/ \E i \in 1..MaxPlayers : PlayerClear(i)
    \/ ProcessEvent

SpecReload == Init /\ [][NextReload]_vars

(***************************************************************************)
(* Specification of a client of the DataManager API                        *)
(***************************************************************************)
ApiMessages == {"Test status message", "second message"}
ApiValues == {50, 100}

NextApi ==
    \/ \E sc \in BOOLEAN, pcb \in BOOLEAN : Construct(sc, pcb)
    \/ \E m \in ApiMessages : UpdateStatus(m)
    \/ \E v \in ApiValues : UpdateProgress(v)
    \/ \E f \in Files : LoadFile(f)

SpecApi == Init /\ [][NextApi]_vars

(***************************************************************************)
(* Specification of the imports and the compatibility check                *)
(***************************************************************************)
NextProbe ==
    \/ \E lib \in Libraries : ImportDataManager(lib)
    \/ \E lib \in Libraries : CheckCompatibility(lib)

SpecProbe == InitProcess /\ [][NextProbe]_vars

(***************************************************************************)
(* Properties                                                              *)
(***************************************************************************)
StepNames == {"load", "bleach", "drift", "moments", "cumulants", "deconv", "extract"}
Called(step) == step \in Range(calls)
Rank(step) ==
    CASE step = "load" -> 1 [] step = "bleach" -> 2 [] step = "drift" -> 3
      [] step = "moments" -> 4 [] step = "cumulants" -> 5 [] step = "deconv" -> 6
      [] step = "extract" -> 7

\* C1: run_sofi never lets an error escape: every call returns a
\* (success, message, ...) result, whatever the state of the manager.
C1_NoErrorEscapes ==
    pc = "returned" => (~ret.raised /\ ret.msg # <<>>)

\* C2: after a successful load_file, a run_sofi call in which no external
\* step fails and the library computes cumulant images returns success and
\* stores a result image of the order it reports.
C2_LoadThenRunSucceeds ==
    (pc = "returned" /\ data.st = "set" /\ pysofi /\ sofi.failed = "none"
        /\ (Called("extract") => sofi.cumulants_set # {}))
    => (ret.success /\ sofi_result.kind # "none" /\ sofi_result.order = ret.order_used)

\* C3: load_file on a path that does not exist returns success = false with
\* a message containing "Could not find the file", whatever the manager held
\* before, and the TIFF decoder is not called.
C3_MissingFileFails ==
    (last.op = "load_file" /\ ~last.file.exists)
    => (~last.success /\ Contains(last.msg, "Could not find the file: ") /\ last.decodes = 0)

C3_Witness ==
    last.op = "load_file" /\ ~last.file.exists /\ data.st = "absent"

C5_FramesAreLeadingDim ==
    (last.op = "load_file" /\ last.success)
    => /\ data.st = "set"
       /\ total_frames = data.shape[1]
       /\ last.file.ndim = 2 => (total_frames = 1 /\ Len(data.shape) = 3)

C5_Witness ==
    last.op = "load_file" /\ last.success /\ last.file.ndim = 2 /\ data.shape[2] > 1

\* C6 (as claimed): after _cleanup_temp_files returns, no tracked path
\* exists on disk and the tracking list is empty, also for paths whose
\* removal fails.
C6_AllTrackedRemoved ==
    last.op = "cleanup" => (temp_files = <<>> /\ last.tracked \cap disk = {})

\* C6 (amended): after _cleanup_temp_files returns, the tracking list is
\* empty and every tracked path whose removal did not fail no longer exists;
\* a path whose removal fails is still on disk.
C6_TrackedRemovedUnlessFailed ==
    last.op = "cleanup"
    => /\ temp_files = <<>>
       /\ (last.tracked \ last.failed) \cap disk = {}
       /\ last.failed \subseteq disk

C6_Witness ==
    /\ last.op = "cleanup"
    /\ last.failed # {}
    /\ last.tracked \ last.failed # {}

\* C7: when the requested order is absent from the cumulant results and some
\* order is present, the run uses the maximum available order and returns
\* success, with or without deconvolution.
C7_FallbackToMaxOrder ==
    (pc = "returned" /\ Called("extract")
        /\ params.order \notin sofi.cumulants_set /\ sofi.cumulants_set # {})
    => /\ ret.success
       /\ sofi.fourier # "has" => ret.order_used = Max(sofi.cumulants_set)

\* C8: the external steps of a run occur in the order load, bleach
\* correction, drift correction, moments, cumulants, deconvolution, result
\* extraction; no step runs without the ones before it, and where the run
\* gets past an optional step, the step has run exactly when it was requested
\* (for deconvolution: requested with order > 2).
C8_StepOrder ==
    /\ \A i, j \in 1..Len(calls) :
          i < j => \/ Rank(calls[i]) < Rank(calls[j])
                   \/ calls[i] = "cumulants" /\ calls[j] = "cumulants"
    /\ \A i \in 1..Len(calls) : calls[i] \in StepNames
    /\ calls # <<>> => calls[1] = "load"
    /\ Called("bleach") => params.bleach
    /\ Called("drift") => params.drift
    /\ Called("deconv") => (params.deconv /\ params.order > 2)
    /\ (Called("drift") \/ Called("moments")) => (Called("bleach") <=> params.bleach)
    /\ Called("moments") => (Called("drift") <=> params.drift)
    /\ Called("cumulants") => Called("moments")
    /\ Called("extract") => Called("cumulants")
    /\ Called("extract") => (Called("deconv") <=> (params.deconv /\ params.order > 2))
    /\ (pc = "returned" /\ ret.success) => Called("extract")

C8_Witness ==
    /\ pc = "returned"
    /\ ret.success
    /\ calls = <<"load", "bleach", "drift", "moments", "cumulants", "deconv", "extract">>

\* C9 (as claimed): if any step of a run fails, the run is aborted: the
\* failing call is the last one, the call returns success = false with a
\* message and stores no result image.
C9_AnyFailureAborts ==
    (pc = "returned" /\ (sofi.failed # "none" \/ sofi.typeerror))
    => /\ ~ret.success /\ ret.msg # <<>> /\ ~ret.stored
       /\ calls[Len(calls)] = (IF sofi.typeerror THEN "cumulants" ELSE sofi.failed)
       /\ Count(calls, "cumulants") <= 1

\* C9 (amended): if loading, bleach correction, drift correction, moments or
\* cumulants fails for good, the run is aborted: the failing call is the last
\* one, the call returns success = false with a message and stores no result
\* image. A failing deconvolution does not abort the run: result extraction
\* still runs, and the run succeeds with the cumulant image of the requested
\* order exactly when that order is among the cumulant results.
C9_FailureAbortsExceptDeconv ==
    pc = "returned"
    => /\ sofi.failed \in {"load", "bleach", "drift", "moments", "cumulants"}
          => /\ ~ret.success /\ ~ret.raised /\ ret.msg # <<>>
             /\ ~ret.stored /\ ~ret.result
             /\ calls[Len(calls)] = sofi.failed
       /\ sofi.failed = "deconv"
          => /\ calls[Len(calls)] = "extract"
             /\ ret.msg # <<>>
             /\ ret.success <=> params.order \in sofi.cumulants_set
             /\ ret.success => sofi_result = [kind |-> "cumulant", order |-> params.order]
             /\ ~ret.success => ~ret.stored

C9_Witness ==
    /\ pc = "returned"
    /\ sofi.failed = "drift"
    /\ calls = <<"load", "bleach", "drift">>

\* C10 (as claimed): within one run_sofi call every external step is invoked
\* at most once.
C10_NoStepTwice ==
    \A s \in StepNames : Count(calls, s) <= 1

\* C10 (amended): within one run_sofi call every external step other than
\* cumulants_images is invoked at most once; cumulants_images is invoked at
\* most twice, the second time only after the first call raised a TypeError.
C10_OnlyCumulantsRetried ==
    /\ \A s \in StepNames \ {"cumulants"} : Count(calls, s) <= 1
    /\ Count(calls, "cumulants") <= 2
    /\ Count(calls, "cumulants") = 2 => sofi.typeerror

C10_Witness ==
    pc = "returned" /\ ret.success /\ Count(calls, "cumulants") = 2

\* C11: reconstruct_fourier is called only in runs of an order above 2; a
\* run of order 2 never calls it, also with the deconvolution flag set, and
\* its result is a plain cumulant image.
C11_DeconvOnlyAboveOrder2 ==
    /\ Called("deconv") => params.order > 2
    /\ (pc = "returned" /\ ret.success /\ params.order = 2)
       => (~Called("deconv") /\ sofi.fourier = "none" /\ sofi_result.kind = "cumulant")

C11_Witness ==
    /\ pc = "returned" /\ ret.success
    /\ params.order = 2 /\ params.deconv
    /\ sofi_result.kind = "cumulant"

\* C12: at most one analysis thread exists at any time, and the run control
\* is disabled for as long as one exists, so no click can start a second one.
C12_AtMostOneWorker ==
    /\ Cardinality({w \in Workers : workers[w].pc # "none"}) <= 1
    /\ (\E w \in Workers : workers[w].pc # "none") => run_button = "disabled"

C12_Witness ==
    /\ sofi_result.kind # "none"
    /\ \E w \in Workers : workers[w].pc = "calling"
    /\ pc = "cumulants"
    /\ gui.op = "load"

\* C13: every change of presentation state (status text, run control,
\* result view) is made by the UI thread; the analysis thread and the
\* playback thread make none themselves.
C13_OnlyUiThreadWrites ==
    \A e \in ui_writes : e[1] = "ui"

\* C14: the UI stays usable after any failure: a click on the run control is
\* always answered by a started run or a warning, never by an error escaping
\* the handler, also after failed loads; and once an analysis thread has been
\* started, the run control eventually is enabled again.
C14_UiStaysUsable ==
    /\ [](gui_run # "error")
    /\ (\E w \in Workers : workers[w].pc # "none") ~> (run_button = "normal")

SeekAction ==
    \/ PrevFrame
    \/ NextFrame
    \/ SliderMotion
    \/ \E idx \in 0..(PlayFrames - 1) : UpdateFrameFromSlider(idx) \/ SliderRelease(idx)

\* C15: during a playback run every tick of the loop advances the frame
\* index current_frame by exactly 1, and no step of the playback (a tick, or
\* the frame update it has scheduled) moves the index backwards.
C15_TickAdvancesIndexByOne ==
    [][/\ (\E i \in 1..MaxPlayers : PlayerAdvance(i))
          => vis'.current_frame = vis.current_frame + 1
       /\ (is_playing /\ ProcessEvent) => vis'.current_frame >= vis.current_frame]_vars

\* C16: every playback run stops: a press of the play button while playing
\* clears is_playing; a run that reaches the last frame, with no user input
\* since it was started, ends with is_playing cleared and, once its callbacks
\* have run, the play symbol on the button, also when it was started on the
\* last frame; and whenever is_playing is set it is eventually cleared.
C16_PlaybackStops ==
    /\ [][(PlayPause /\ is_playing) => ~is_playing']_vars
    /\ [](\A i \in DOMAIN players :
            (players[i].pc = "done" /\ players[i].how = "end"
                /\ ~players[i].disturbed /\ events = <<>>)
            => (~is_playing /\ play_button = "play"))
    /\ (is_playing ~> ~is_playing)

C16_Witness ==
    \E i \in DOMAIN players :
        /\ players[i].pc = "done" /\ players[i].how = "end"
        /\ players[i].start = PlayFrames - 1
        /\ ~players[i].disturbed /\ events = <<>>

\* C17: a seek (previous, next, slider) made while playing stops the
\* playback.
C17_SeekStopsPlayback ==
    [][(SeekAction /\ is_playing) => ~is_playing']_vars

\* C18: the seek handlers (prev_frame, next_frame, the slider handlers) act
\* while playing and while stopped, and none of them changes is_playing.
C18_SeekKeepsPlayState ==
    [][SeekAction => (is_playing' = is_playing)]_vars

C18_Witness ==
    /\ is_playing /\ ~closed
    /\ Len(players) = 1 /\ players[1].disturbed /\ players[1].pc = "advance"
    /\ vis.current_frame # players[1].current

C20_ResultOnlyFromSuccessfulRun ==
    [][(sofi_result' # sofi_result)
       => (pc = "extract" /\ pc' = "returned" /\ ret'.success /\ ~ret'.raised)]_vars

C20_Witness ==
    /\ sofi_result.kind # "none"
    /\ pc = "returned" /\ ~ret.success /\ sofi.failed # "none"
    /\ last.op = "save_result" /\ ~last.success
    /\ data.st = "absent"

\* C21: the compatibility check reports an optional method as supported
\* exactly when the installed library defines it itself, whether the check
\* runs before or after core.data_manager has been imported.
C21_ProbeTellsNativeFromPatched ==
    (probe.ran /\ probe.available)
    => probe.supported = PysofiData.native \cap OptionalMethods

\* the fields of a DataManager other than what its callbacks have received
ManagerState == <<data, sofi_result, total_frames, temp_files, file_path,
                  status_callback, progress_callback>>

\* C22: update_status(m) calls the status callback exactly once, with m, and
\* update_progress(v) the progress callback exactly once, with v; a call
\* whose callback was not supplied calls nothing; neither changes any other
\* field of the manager, nor calls the other callback.
C22_UpdateCallsCallbackOnce ==
    [][/\ \A m \in ApiMessages :
            UpdateStatus(m)
            => /\ status_seen' = IF status_callback THEN <<m>> ELSE <<>>
               /\ progress_seen' = <<>>
               /\ UNCHANGED ManagerState
       /\ \A v \in ApiValues :
            UpdateProgress(v)
            => /\ progress_seen' = IF progress_callback THEN <<v>> ELSE <<>>
               /\ status_seen' = <<>>
               /\ UNCHANGED ManagerState]_vars

C22_Witness ==
    /\ last.op = "update_progress"
    /\ progress_callback /\ progress_seen = <<50>>
    /\ ~status_callback
    /\ data.st = "set"

\* C23: in every state total_frames is the leading dimension of the stack
\* the manager holds, and 0 when it holds none, also after a failed load
\* that follows a successful one.
C23_FramesMatchHeldStack ==
    total_frames = IF data.st = "set" THEN LeadingDim(data.shape) ELSE 0

\* C24: in a run started from the GUI, run_sofi applies a weighting exactly
\* when the weighting selected in the UI is not "none", and then the selected
\* one; and it calls the deconvolution exactly when the deconvolution box is
\* ticked and the order is above 2.
C24_UiChoicesReachPipeline ==
    \A w \in Workers :
        (workers[w].pc = "calling" /\ pc # "idle")
        => LET d == workers[w].parameters
           IN  /\ Called("cumulants")
                  => /\ WeightingRequested(params) <=> d.weight # "none"
                     /\ d.weight # "none" => params.weighting = d.weight
               /\ Called("extract")
                  => (Called("deconv") <=> (d.deconvolution /\ d.order > 2))

\* C25: when the run_sofi call of a GUI run has returned success, the
\* analysis thread shows the new result before it enables the run control
\* again: the result visualizer holds the image made from sofi_result, the
\* result tab is selected and the save control is enabled.
C25_ResultShownBeforeReenable ==
    \A w \in Workers :
        (workers[w].pc = "finally" /\ ret.success /\ ~ret.raised)
        => /\ run_button = "disabled"
           /\ sofi_vis = ResultView(sofi_result, workers[w].parameters)
           /\ notebook = "sofi"
           /\ save_button = "normal"

\* C26: after a load_file call that returned failure the manager holds no
\* stack and its data attribute exists with the value None, whatever it held
\* before the call.
C26_FailedLoadLeavesNone ==
    (last.op = "load_file" /\ ~last.success) => data = NoData

\* C27: once the stack visualizer holds a stack, its frame index is a valid
\* index of that stack, 0 <= current_frame < total_frames, whatever the
\* playback threads, the seek handlers and further loads do.
C27_FrameIndexInRange ==
    vis.data.st = "set"
    => (0 <= vis.current_frame /\ vis.current_frame < vis.total_frames)

\* thread i has been superseded: a later press of play has started another
\* thread; and a later thread has registered itself in play_thread_id
Superseded(i) == i \in DOMAIN players /\ Len(players) > i
NewerRegistered(i) == \E j \in DOMAIN players : j > i /\ players[j].pc # "begin"

\* C28: a playback thread that has been superseded by a later press of play
\* does not end the newer run: no step of it clears is_playing or schedules
\* the reset of the play button while the newer run is playing, and it makes
\* no advance of the frame index once a newer thread has registered itself.
C28_SupersededThreadIsInert ==
    [][\A i \in 1..MaxPlayers :
          /\ (Superseded(i) /\ is_playing /\ PlayerStep(i))
             => (is_playing' /\ \A k \in DOMAIN events' : events'[k] # ButtonEvent)
          /\ (Superseded(i) /\ NewerRegistered(i)) => ~PlayerAdvance(i)]_vars

\* the frame thread i published last, or the frame it started from
LastPublished(p) == IF p.published = <<>> THEN p.start ELSE p.published[Len(p.published)]

\* C29: a seek made during playback does not redirect the playback: a seek
\* changes no thread's position, and every tick of a thread assigns to
\* current_frame, and publishes, the successor of the frame the thread
\* published before (of the frame it started from at its first tick),
\* whatever frame was sought meanwhile.
C29_SeekDoesNotRedirect ==
    [][/\ SeekAction
          => \A i \in DOMAIN players :
                /\ players'[i].current = players[i].current
                /\ players'[i].pc = players[i].pc
                /\ players'[i].published = players[i].published
       /\ \A i \in 1..MaxPlayers :
             PlayerAdvance(i)
             => /\ vis'.current_frame = LastPublished(players[i]) + 1
                /\ ~closed => /\ LastPublished(players'[i]) = vis'.current_frame
                              /\ events'[Len(events')] = FrameEvent(vis'.current_frame)]_vars

\* after a seek: a running playback thread stands elsewhere than the frame
\* sought
SoughtElsewhere ==
    /\ is_playing
    /\ \E i \in DOMAIN players :
          /\ play_thread_id = i
          /\ players[i].pc \in {"check", "advance"}
          /\ players[i].current # vis'.current_frame

\* the playback with seeks made only during a run and to another frame than
\* the thread's position
NextSeek ==
    \/ \E path \in Paths, f \in PlayFiles :
          ~closed /\ players = <<>> /\ LoadFileFromPath(path, f, FALSE, FALSE)
    \/ PlayPause
    \/ PrevFrame /\ SoughtElsewhere
    \/ NextFrame /\ SoughtElsewhere
    \/ SliderMotion /\ SoughtElsewhere
    \/ \E idx \in 0..(PlayFrames - 1) : UpdateFrameFromSlider(idx) /\ SoughtElsewhere
    \/ \E idx \in 0..(PlayFrames - 1) : SliderRelease(idx) /\ SoughtElsewhere
    \/ \E i \in 1..MaxPlayers : PlayerBegin(i)
    \/ \E i \in 1..MaxPlayers : PlayerCheck(i)
    \/ \E i \in 1..MaxPlayers : PlayerAdvance(i)
    \/ \E i \in 1..MaxPlayers : PlayerEnd(i)
    \/ \E i \in 1..MaxPlayers : PlayerClear(i)
    \/ ProcessEvent
    \/ OnClose

SpecSeek == Init /\ [][NextSeek]_vars

\* the first thread has made two ticks, none of its frame updates has run
\* yet, and the user has made a seek during its run: one of the ticks
\* followed a seek to another frame and overwrote it with the thread's own
\* next frame
C29_Witness ==
    /\ is_playing /\ ~closed
    /\ Len(players) = 1 /\ players[1].disturbed /\ players[1].pc = "check"
    /\ players[1].start = 0 /\ players[1].published = <<1, 2>>
    /\ events = <<FrameEvent(1), FrameEvent(2)>>
    /\ vis.current_frame = 2

\* the values of a log never go down
NonDecreasing(log) == \A i, j \in 1..Len(log) : i < j => log[i] <= log[j]

\* a step of a run_sofi call: its start or one of its later steps
RunCallStep ==
    \/ \E d \in ParamDicts : RunSofi(d)
    \/ \E o \in CallOutcomes \cup {"noframes"} : StepLoad(o)
    \/ \E o \in CallOutcomes : StepBleach(o) \/ StepDrift(o)
    \/ \E o \in CallOutcomes, fails \in NoFails : StepMoments(o, fails)
    \/ \E o \in CallOutcomes \cup {"typeerror"}, keys \in SUBSET CumulantKeys,
          fails \in NoFails : StepCumulants(o, keys, fails) \/ StepCumulantsRetry(o, keys, fails)
    \/ \E o \in {"has", "hasnot", "raise"}, fails \in NoFails : StepDeconv(o, fails)
    \/ \E fails \in NoFails : StepExtract(fails)

\* C30: with a progress callback supplied, in each call of load_file,
\* run_sofi and save_result the value 100 is reported if and only if the
\* call returns success (a run_sofi call that is still under way has not
\* reported it), and the values reported within the call never go down.
C30_DoneReportedIffSuccess ==
    [][/\ NonDecreasing(progress_seen')
       /\ \/ (ProgressDone \in Range(progress_seen')) <=> last'.success
          \/ ~((\E f \in RunFiles : LoadFile(f)) \/ (\E o \in CallOutcomes : SaveResult(o)))
       /\ \/ (ProgressDone \in Range(progress_seen')) <=> (pc' = "returned" /\ ret'.success)
          \/ ~RunCallStep]_vars

\* a run_sofi call has returned success after reporting every stage
C30_Witness ==
    /\ pc = "returned" /\ ret.success /\ progress_callback
    /\ progress_seen = <<ProgressRunStart, ProgressLoaded, ProgressMoments,
                         ProgressCumulants, ProgressDone>>

====
